---- MODULE Spec2Model ----
(***************************************************************************)
(* Model of textileio/mill-go's BlockOutbox (src/core/block_outbox.go):    *)
(* the durable queue of outbound thread messages, Add, Flush, the paged    *)
(* batch with one goroutine per destination peer, and handle (direct send  *)
(* with fallback to the cafe inbox).                                       *)
(***************************************************************************)
EXTENDS Integers, Sequences, FiniteSets, TLC

(* ---------------------------------------------------------------- bounds *)

\* number of message ids (ksuids) the model can issue
MaxId == 3

\* number of rows the peers table of the service can take
MaxRows == 2

\* page size of List: blockFlushGroupSize is 16 in block_outbox.go:16; the
\* model scales it down so that several pages fit in MaxId messages
blockFlushGroupSize == 2

(* ------------------------------------------------------------- universes *)

Ids == 1..MaxId
Peers == {"P1", "P2"}
Envs == {"e1"}
Callers == {"f1", "f2"}

\* a ksuid is a timestamp in seconds followed by random bytes: ids issued in
\* different seconds are ordered by time, ids of one second are in any order
TimeOf(id) == (id + 1) \div 2

\* what Peers().Get(peerId) can return: no contact, a contact without
\* inboxes, a contact with an inbox
NoContact == [exists |-> FALSE, Inboxes |-> {}]
ContactValues == {NoContact, [exists |-> TRUE, Inboxes |-> {}], [exists |-> TRUE, Inboxes |-> {"I1"}]}

(* -------------------------------------------- universes of the service *)

\* peer ids, and this peer's own id (s.self)
PeerIds == {"A", "B"}
self == "S"

\* what Pointers().Get(pid) finds: nothing (Get returns an error), or a
\* pointer whose CancelId is nil or a peer id
NoPointer == [exists |-> FALSE, CancelId |-> "nil"]
PointerValues == {NoPointer} \cup [exists : {TRUE}, CancelId : PeerIds \cup {"nil"}]

\* no message is waiting; no dispatch has happened
NoMessage == [MessageType |-> "NONE"]
NoDispatch == [done |-> FALSE]

\* the goroutines that run handleThreadBlock concurrently, and one at rest
Handlers == {"h1", "h2"}
Idle == [pc |-> "idle"]

VARIABLES
    started,        \* q.service() # nil
    used,           \* ids ever issued by ksuid.New()
    blockMessages,  \* datastore.BlockMessages(): the set of queued messages
    contacts,       \* datastore.Peers(): peer id -> contact
    mux,            \* BlockOutbox.mux: "free" or the caller holding it
    pc,             \* position of each Flush caller
    msgs,           \* batch's argument, per caller
    wpc,            \* position of the goroutine of each (caller, peer)
    widx,           \* index of that goroutine in its group
    wseen,          \* the value of toDelete that goroutine's append has read
    toDelete,       \* batch's toDelete, per caller
    next,           \* batch's next, per caller
    didx,           \* index of the delete loop, per caller
    deleted,        \* batch's deleted, per caller
    calls,          \* history: what handle did for each id in this Flush
    delFailed,      \* history: whether a Delete failed in this Flush
    concurrent,     \* history: per caller, the ids that a Flush which ran
                    \* while this caller's Flush waited for the lock has
                    \* delivered and left queued although no Delete failed
    addedDuring,    \* history: per caller, the ids Add issued during its Flush
    rehandled,      \* history: per caller, the ids its Flush handled again
    ran,            \* history: per caller, whether its Flush found a service
    interrupted,    \* history: "none", or where the restart interrupted a
                    \* Flush, until the first Flush after it returns
    threads,        \* the thread registry of the service (getThread, addThread)
    threadPeers,    \* datastore.Peers() of the service: the rows added
    chain,          \* the blocks applied by Thread.HandleBlock
    pointers,       \* datastore.Pointers(): peer id -> pointer
    blocks,         \* node.Blocks / node.Blockstore: the cids stored
    inflight,       \* the message read from the stream, not yet dispatched
    last,           \* history: the last dispatch, its handler calls and result
    admitted,       \* history: the thread ids of the INVITEs applied without error
    running         \* per goroutine of the stream handler that runs
                    \* handleThreadBlock step by step: its position, its
                    \* block, the thrd it looked up, and its result

outboxVars == <<started, used, blockMessages, contacts, mux, pc, msgs,
                wpc, widx, wseen, toDelete, next, didx, deleted, calls, delFailed, concurrent,
                addedDuring, rehandled, ran, interrupted>>

serviceVars == <<threads, threadPeers, chain, pointers, blocks, inflight, last, admitted,
                 running>>

vars == <<outboxVars, serviceVars>>

(* ----------------------------------------------------------- the datastore *)

QueuedIds == {m.Id : m \in blockMessages}

RECURSIVE SortById(_)
SortById(S) ==
    IF S = {} THEN <<>>
    ELSE LET m == CHOOSE x \in S : \A y \in S : x.Id <= y.Id
         IN <<m>> \o SortById(S \ {m})

Take(s, n) == IF Len(s) <= n THEN s ELSE SubSeq(s, 1, n)

\* BlockMessages().List(offset, limit): the first limit messages after offset
\* in ascending id order ("" is offset 0)
List(offset, limit) ==
    Take(SortById({m \in blockMessages : m.Id > offset}), limit)

\* the clock of ksuid.New() and TimestampNow()
Now == IF used = {} THEN 0 ELSE TimeOf(CHOOSE i \in used : \A j \in used : j <= i)

(* ------------------------------------------------------------------ handle *)

NoCall == [done |-> FALSE]

\* handle sends directly only when q.service().online and SwarmConnected
\* answered (true, nil)
sendable_keepsDisconnected(online, conn) == online /\ conn # "err"
sendable(online, conn) == online /\ conn = "yes"

\* the condition of the fallback branch: !sendable || err != nil
fallback_always(isSendable, sendRes) == TRUE
fallback(isSendable, sendRes) == ~isSendable \/ sendRes = "err"

\* contact != nil && len(contact.Inboxes) > 0
hasInbox(contact) == contact.exists /\ contact.Inboxes # {}

\* the error handle returns: SwarmConnected's, or AddForInbox's, else nil
handleErr_relayIgnored(chkErr, relayRes) == chkErr
handleErr(chkErr, relayRes) == chkErr \/ relayRes = "err"

\* handle(peerId, msg) as a function of what its collaborators answer:
\* online = q.service().online, conn = SwarmConnected's answer,
\* send = SendMessage's answer, relay = AddForInbox's answer.
\* The result records each call handle made and the error it returned.
handle(peerId, msg, online, conn, send, relay) ==
    LET chkErr   == online /\ conn = "err"
        direct   == ~chkErr /\ sendable(online, conn)
        sendRes  == IF direct THEN send ELSE "none"
        lookup   == ~chkErr /\ fallback(direct, sendRes)
        contact  == contacts[peerId]
        relayRes == IF lookup /\ hasInbox(contact) THEN relay ELSE "none"
    IN [done    |-> TRUE,
        peer    |-> peerId,
        msg     |-> msg,
        online  |-> online,
        conn    |-> IF online THEN conn ELSE "none",
        send    |-> sendRes,
        lookup  |-> lookup,
        inboxes |-> IF relayRes # "none" THEN contact.Inboxes ELSE {},
        relay   |-> relayRes,
        err     |-> handleErr(chkErr, relayRes)]

\* a call of handle that delivered the envelope, directly or to an inbox
Delivered(r) == r.done /\ (r.send = "ok" \/ r.relay = "ok")

(* -------------------------------------------------------------------- Init *)

\* a new outbox over an empty queue; the peers table is any in which P1 is a
\* contact with an inbox (P2 is absent, without inbox, or with one)
InitOutbox ==
    /\ started = FALSE
    /\ used = {}
    /\ blockMessages = {}
    /\ contacts \in {f \in [Peers -> ContactValues] : f["P1"].Inboxes # {}}
    /\ mux = "free"
    /\ pc = [c \in Callers |-> "idle"]
    /\ msgs = [c \in Callers |-> <<>>]
    /\ wpc = [c \in Callers |-> [p \in Peers |-> "none"]]
    /\ widx = [c \in Callers |-> [p \in Peers |-> 0]]
    /\ wseen = [c \in Callers |-> [p \in Peers |-> <<>>]]
    /\ toDelete = [c \in Callers |-> <<>>]
    /\ next = [c \in Callers |-> <<>>]
    /\ didx = [c \in Callers |-> 0]
    /\ deleted = [c \in Callers |-> <<>>]
    /\ calls = [c \in Callers |-> [i \in Ids |-> NoCall]]
    /\ delFailed = [c \in Callers |-> FALSE]
    /\ concurrent = [c \in Callers |-> {}]
    /\ addedDuring = [c \in Callers |-> {}]
    /\ rehandled = [c \in Callers |-> {}]
    /\ ran = [c \in Callers |-> FALSE]
    /\ interrupted = "none"

\* the service has received nothing: no thread, no peer row, no pointer, no block
ServiceAtRest ==
    /\ threads = {}
    /\ threadPeers = <<>>
    /\ chain = {}
    /\ pointers = [p \in PeerIds |-> NoPointer]
    /\ blocks = {}
    /\ inflight = NoMessage
    /\ last = NoDispatch
    /\ admitted = {}
    /\ running = [h \in Handlers |-> Idle]

Init == InitOutbox /\ ServiceAtRest

flushVars == <<mux, pc, msgs, wpc, widx, wseen, toDelete, next, didx, deleted, calls, delFailed, concurrent,
               rehandled, ran, interrupted>>

(* ----------------------------------------------------------------- actions *)

\* the caller is inside Flush's critical section
InFlush(c) == pc[c] \in {"batch", "wait", "delete", "unlock"}

\* the node starts its threads service: q.service() stops returning nil
StartService ==
    /\ UNCHANGED serviceVars
    /\ ~started
    /\ started' = TRUE
    /\ UNCHANGED <<used, blockMessages, contacts, addedDuring>>
    /\ UNCHANGED flushVars

\* Add(peerId, env): one insert into the datastore, without q.mux
Add_waitsForLock(peerId, env) ==
    /\ UNCHANGED serviceVars
    /\ mux = "free"
    /\ \E id \in Ids \ used :
        /\ TimeOf(id) >= Now
        /\ used' = used \cup {id}
        /\ blockMessages' = blockMessages \cup
               {[Id |-> id, Peer |-> peerId, Env |-> env, Date |-> TimeOf(id)]}
        /\ addedDuring' = [c \in Callers |->
               IF InFlush(c) THEN addedDuring[c] \cup {id} ELSE addedDuring[c]]
    /\ UNCHANGED <<started, contacts>>
    /\ UNCHANGED flushVars
Add(peerId, env) ==
    /\ UNCHANGED serviceVars
    /\ \E id \in Ids \ used :
        /\ TimeOf(id) >= Now
        /\ used' = used \cup {id}
        /\ blockMessages' = blockMessages \cup
               {[Id |-> id, Peer |-> peerId, Env |-> env, Date |-> TimeOf(id)]}
        /\ addedDuring' = [c \in Callers |->
               IF InFlush(c) THEN addedDuring[c] \cup {id} ELSE addedDuring[c]]
    /\ UNCHANGED <<started, contacts>>
    /\ UNCHANGED flushVars

\* a caller invokes Flush and blocks on q.mux.Lock()
FlushCall(c) ==
    /\ UNCHANGED serviceVars
    /\ pc[c] = "idle"
    /\ pc' = [pc EXCEPT ![c] = "lock"]
    /\ UNCHANGED <<started, used, blockMessages, contacts, mux, msgs,
                   wpc, widx, wseen, toDelete, next, didx, deleted, calls, delFailed, concurrent,
                   addedDuring, rehandled, ran, interrupted>>

\* q.mux.Lock() succeeds only on a free mutex
CanLock_always(c) == TRUE
CanLock(c) == mux = "free"

\* Flush, from the lock to the first page: List("", blockFlushGroupSize)
Flush_skipsFirst(c) ==
    /\ UNCHANGED serviceVars
    /\ pc[c] = "lock"
    /\ CanLock(c)
    /\ mux' = c
    /\ ran' = [ran EXCEPT ![c] = started]
    /\ IF ~started
       THEN /\ pc' = [pc EXCEPT ![c] = "unlock"]
            /\ UNCHANGED msgs
       ELSE /\ pc' = [pc EXCEPT ![c] = "batch"]
            /\ msgs' = [msgs EXCEPT ![c] = List(1, blockFlushGroupSize)]
    /\ UNCHANGED <<started, used, blockMessages, contacts,
                   wpc, widx, wseen, toDelete, next, didx, deleted, calls, delFailed, concurrent,
                   addedDuring, rehandled, interrupted>>
Flush(c) ==
    /\ UNCHANGED serviceVars
    /\ pc[c] = "lock"
    /\ CanLock(c)
    /\ mux' = c
    /\ ran' = [ran EXCEPT ![c] = started]
    /\ IF ~started
       THEN /\ pc' = [pc EXCEPT ![c] = "unlock"]
            /\ UNCHANGED msgs
       ELSE /\ pc' = [pc EXCEPT ![c] = "batch"]
            /\ msgs' = [msgs EXCEPT ![c] = List(0, blockFlushGroupSize)]
    /\ UNCHANGED <<started, used, blockMessages, contacts,
                   wpc, widx, wseen, toDelete, next, didx, deleted, calls, delFailed, concurrent,
                   addedDuring, rehandled, interrupted>>

\* groups[p] of batch
Group_reversed(ms, p) ==
    LET g == SelectSeq(ms, LAMBDA m : m.Peer = p)
    IN [i \in 1..Len(g) |-> g[Len(g) + 1 - i]]
Group(ms, p) == SelectSeq(ms, LAMBDA m : m.Peer = p)

\* batch, from its entry to wg.Wait(): return on an empty page, else group
\* by peer and start one goroutine per group
Batch(c) ==
    /\ UNCHANGED serviceVars
    /\ pc[c] = "batch"
    /\ IF Len(msgs[c]) = 0
       THEN /\ pc' = [pc EXCEPT ![c] = "unlock"]
            /\ UNCHANGED <<wpc, widx, wseen, toDelete>>
       ELSE /\ pc' = [pc EXCEPT ![c] = "wait"]
            /\ toDelete' = [toDelete EXCEPT ![c] = <<>>]
            /\ wpc' = [wpc EXCEPT ![c] = [p \in Peers |->
                          IF Len(Group(msgs[c], p)) > 0 THEN "run" ELSE "none"]]
            /\ widx' = [widx EXCEPT ![c] = [p \in Peers |-> 1]]
            /\ wseen' = [wseen EXCEPT ![c] = [p \in Peers |-> <<>>]]
    /\ UNCHANGED <<started, used, blockMessages, contacts, mux, msgs,
                   next, didx, deleted, calls, delFailed, concurrent,
                   addedDuring, rehandled, ran, interrupted>>

\* the goroutine's position after the message at index i of its group
AfterMsg(c, p, i) == IF i >= Len(Group(msgs[c], p)) THEN "done" ELSE "run"

\* the goroutine's position after a message whose handle returned an error:
\* "continue" goes on with the next message of the group
AfterError_breaks(c, p, i) == "done"
AfterError(c, p, i) == AfterMsg(c, p, i)

\* the goroutine appends msg.Id to toDelete unless handle returned an error
Reports_always(r) == TRUE
Reports(r) == ~r.err

\* one iteration of the goroutine's loop up to the load of toDelete:
\* handle the message; on an error continue, else read toDelete for append
WorkerHandle(c, p) ==
    /\ UNCHANGED serviceVars
    /\ pc[c] = "wait"
    /\ wpc[c][p] = "run"
    /\ LET msg == Group(msgs[c], p)[widx[c][p]] IN
       \E online \in BOOLEAN, conn \in {"yes", "no", "err"},
          send \in {"ok", "err"}, relay \in {"ok", "err"} :
         LET r == handle(p, msg, online, conn, send, relay) IN
         /\ calls' = [calls EXCEPT ![c][msg.Id] = r]
         /\ rehandled' = [rehandled EXCEPT ![c] =
                IF calls[c][msg.Id].done THEN @ \cup {msg.Id} ELSE @]
         /\ IF ~Reports(r)
            THEN /\ wpc' = [wpc EXCEPT ![c][p] = AfterError(c, p, widx[c][p])]
                 /\ widx' = [widx EXCEPT ![c][p] = @ + 1]
                 /\ UNCHANGED wseen
            ELSE /\ wpc' = [wpc EXCEPT ![c][p] = "append"]
                 /\ wseen' = [wseen EXCEPT ![c][p] = toDelete[c]]
                 /\ UNCHANGED widx
    /\ UNCHANGED <<started, used, blockMessages, contacts, mux, pc, msgs,
                   toDelete, next, didx, deleted, delFailed, concurrent,
                   addedDuring, ran, interrupted>>

\* the store of toDelete = append(toDelete, msg.Id): the goroutines share
\* toDelete without synchronisation, so the store is of the value read
WorkerAppend(c, p) ==
    /\ UNCHANGED serviceVars
    /\ pc[c] = "wait"
    /\ wpc[c][p] = "append"
    /\ LET msg == Group(msgs[c], p)[widx[c][p]] IN
       toDelete' = [toDelete EXCEPT ![c] = Append(wseen[c][p], msg.Id)]
    /\ wpc' = [wpc EXCEPT ![c][p] = AfterMsg(c, p, widx[c][p])]
    /\ widx' = [widx EXCEPT ![c][p] = @ + 1]
    /\ wseen' = [wseen EXCEPT ![c][p] = <<>>]
    /\ UNCHANGED <<started, used, blockMessages, contacts, mux, pc, msgs,
                   next, didx, deleted, calls, delFailed, concurrent,
                   addedDuring, rehandled, ran, interrupted>>

\* wg.Wait() returns once every goroutine called wg.Done()
WorkersDone_any(c) == \E p \in Peers : wpc[c][p] \in {"none", "done"}
WorkersDone(c) == \A p \in Peers : wpc[c][p] \in {"none", "done"}

\* offset := msgs[len(msgs)-1].Id
pageOffset_first(ms) == ms[1].Id
pageOffset(ms) == ms[Len(ms)].Id

\* batch after the barrier: load the next page, the messages after the last
\* id of this page
NextPage_fromStart(c) ==
    /\ UNCHANGED serviceVars
    /\ pc[c] = "wait"
    /\ WorkersDone(c)
    /\ next' = [next EXCEPT ![c] = List(0, blockFlushGroupSize)]
    /\ didx' = [didx EXCEPT ![c] = 1]
    /\ deleted' = [deleted EXCEPT ![c] = <<>>]
    /\ pc' = [pc EXCEPT ![c] = "delete"]
    /\ wpc' = [wpc EXCEPT ![c] = [p \in Peers |-> "none"]]
    /\ widx' = [widx EXCEPT ![c] = [p \in Peers |-> 0]]
    /\ UNCHANGED <<started, used, blockMessages, contacts, mux, msgs,
                   wseen, toDelete, calls, delFailed, concurrent,
                   addedDuring, rehandled, ran, interrupted>>
NextPage(c) ==
    /\ UNCHANGED serviceVars
    /\ pc[c] = "wait"
    /\ WorkersDone(c)
    /\ next' = [next EXCEPT ![c] = List(pageOffset(msgs[c]), blockFlushGroupSize)]
    /\ didx' = [didx EXCEPT ![c] = 1]
    /\ deleted' = [deleted EXCEPT ![c] = <<>>]
    /\ pc' = [pc EXCEPT ![c] = "delete"]
    /\ wpc' = [wpc EXCEPT ![c] = [p \in Peers |-> "none"]]
    /\ widx' = [widx EXCEPT ![c] = [p \in Peers |-> 0]]
    /\ UNCHANGED <<started, used, blockMessages, contacts, mux, msgs,
                   wseen, toDelete, calls, delFailed, concurrent,
                   addedDuring, rehandled, ran, interrupted>>

\* one iteration of the delete loop; ok is whether Delete returns no error
\* (on an error the loop logs and continues with the next id)
Delete_returnsOnError(c, ok) ==
    /\ UNCHANGED serviceVars
    /\ pc[c] = "delete"
    /\ didx[c] <= Len(toDelete[c])
    /\ LET id == toDelete[c][didx[c]] IN
       IF ok
       THEN /\ blockMessages' = {m \in blockMessages : m.Id # id}
            /\ deleted' = [deleted EXCEPT ![c] = Append(@, id)]
            /\ didx' = [didx EXCEPT ![c] = @ + 1]
            /\ UNCHANGED <<delFailed, pc>>
       ELSE /\ delFailed' = [delFailed EXCEPT ![c] = TRUE]
            /\ pc' = [pc EXCEPT ![c] = "unlock"]
            /\ UNCHANGED <<blockMessages, deleted, didx>>
    /\ UNCHANGED <<started, used, contacts, mux, msgs,
                   wpc, widx, wseen, toDelete, next, calls, concurrent,
                   addedDuring, rehandled, ran, interrupted>>
Delete(c, ok) ==
    /\ UNCHANGED serviceVars
    /\ pc[c] = "delete"
    /\ didx[c] <= Len(toDelete[c])
    /\ LET id == toDelete[c][didx[c]] IN
       IF ok
       THEN /\ blockMessages' = {m \in blockMessages : m.Id # id}
            /\ deleted' = [deleted EXCEPT ![c] = Append(@, id)]
            /\ UNCHANGED delFailed
       ELSE /\ delFailed' = [delFailed EXCEPT ![c] = TRUE]
            /\ UNCHANGED <<blockMessages, deleted>>
    /\ didx' = [didx EXCEPT ![c] = @ + 1]
    /\ UNCHANGED <<started, used, contacts, mux, pc, msgs,
                   wpc, widx, wseen, toDelete, next, calls, concurrent,
                   addedDuring, rehandled, ran, interrupted>>

\* the end of the delete loop: q.batch(next)
Recurse(c) ==
    /\ UNCHANGED serviceVars
    /\ pc[c] = "delete"
    /\ didx[c] > Len(toDelete[c])
    /\ msgs' = [msgs EXCEPT ![c] = next[c]]
    /\ next' = [next EXCEPT ![c] = <<>>]
    /\ toDelete' = [toDelete EXCEPT ![c] = <<>>]
    /\ deleted' = [deleted EXCEPT ![c] = <<>>]
    /\ didx' = [didx EXCEPT ![c] = 0]
    /\ pc' = [pc EXCEPT ![c] = "batch"]
    /\ UNCHANGED <<started, used, blockMessages, contacts, mux,
                   wpc, widx, wseen, calls, delFailed, concurrent,
                   addedDuring, rehandled, ran, interrupted>>

\* the deferred q.mux.Unlock() and the return of Flush
Unlock(c) ==
    /\ UNCHANGED serviceVars
    /\ pc[c] = "unlock"
    /\ mux' = IF mux = c THEN "free" ELSE mux
    /\ pc' = [pc EXCEPT ![c] = "idle"]
    /\ msgs' = [msgs EXCEPT ![c] = <<>>]
    /\ calls' = [calls EXCEPT ![c] = [i \in Ids |-> NoCall]]
    /\ delFailed' = [delFailed EXCEPT ![c] = FALSE]
    /\ concurrent' = [d \in Callers |->
           IF d = c THEN {}
           ELSE IF pc[d] = "lock" /\ ~delFailed[c]
           THEN concurrent[d] \cup {i \in QueuedIds : Delivered(calls[c][i])}
           ELSE concurrent[d]]
    /\ addedDuring' = [addedDuring EXCEPT ![c] = {}]
    /\ rehandled' = [rehandled EXCEPT ![c] = {}]
    /\ ran' = [ran EXCEPT ![c] = FALSE]
    /\ interrupted' = "none"
    /\ UNCHANGED <<started, used, blockMessages, contacts,
                   wpc, widx, wseen, toDelete, next, didx, deleted>>

Next ==
    \/ StartService
    \/ \E p \in Peers, e \in Envs : Add(p, e)
    \/ \E c \in Callers : FlushCall(c)
    \/ \E c \in Callers : Flush(c)
    \/ \E c \in Callers : Batch(c)
    \/ \E c \in Callers, p \in Peers : WorkerHandle(c, p)
    \/ \E c \in Callers, p \in Peers : WorkerAppend(c, p)
    \/ \E c \in Callers : NextPage(c)
    \/ \E c \in Callers, ok \in BOOLEAN : Delete(c, ok)
    \/ \E c \in Callers : Recurse(c)
    \/ \E c \in Callers : Unlock(c)

Spec == Init /\ [][Next]_vars

\* the executions in which BlockMessages().Delete never returns an error
NextDeleteOk ==
    \/ StartService
    \/ \E p \in Peers, e \in Envs : Add(p, e)
    \/ \E c \in Callers : FlushCall(c)
    \/ \E c \in Callers : Flush(c)
    \/ \E c \in Callers : Batch(c)
    \/ \E c \in Callers, p \in Peers : WorkerHandle(c, p)
    \/ \E c \in Callers, p \in Peers : WorkerAppend(c, p)
    \/ \E c \in Callers : NextPage(c)
    \/ \E c \in Callers : Delete(c, TRUE)
    \/ \E c \in Callers : Recurse(c)
    \/ \E c \in Callers : Unlock(c)

SpecDeleteOk == Init /\ [][NextDeleteOk]_vars

\* Add called while no Flush is in its critical section
AddWhileIdle(peerId, env) ==
    /\ \A c \in Callers : ~InFlush(c)
    /\ Add(peerId, env)

\* the steps of caller c's Flush once it holds the lock
FlushStep(c) ==
    \/ Batch(c)
    \/ \E p \in Peers : WorkerHandle(c, p)
    \/ \E p \in Peers : WorkerAppend(c, p)
    \/ NextPage(c)
    \/ \E ok \in BOOLEAN : Delete(c, ok)
    \/ Recurse(c)
    \/ Unlock(c)

\* the executions in which no Add runs during a Flush
NextQuiet ==
    \/ StartService
    \/ \E p \in Peers, e \in Envs : AddWhileIdle(p, e)
    \/ \E c \in Callers : FlushCall(c)
    \/ \E c \in Callers : Flush(c)
    \/ \E c \in Callers : Batch(c)
    \/ \E c \in Callers, p \in Peers : WorkerHandle(c, p)
    \/ \E c \in Callers, p \in Peers : WorkerAppend(c, p)
    \/ \E c \in Callers : NextPage(c)
    \/ \E c \in Callers, ok \in BOOLEAN : Delete(c, ok)
    \/ \E c \in Callers : Recurse(c)
    \/ \E c \in Callers : Unlock(c)

\* a new outbox whose peers table has P1 with an inbox and no P2
InitQuiet == Init /\ contacts["P2"] = NoContact

\* the scheduler runs every goroutine that can take a step, handle and the
\* datastore calls return, and a caller blocked in q.mux.Lock() gets the
\* mutex when it is released often enough (sync.Mutex hands it to waiters)
SpecQuiet ==
    /\ InitQuiet
    /\ [][NextQuiet]_vars
    /\ \A c \in Callers : WF_vars(FlushStep(c))
    /\ \A c \in Callers : SF_vars(Flush(c))

\* the process stops while caller c's Flush holds the lock, and restarts: the
\* datastore keeps the queue and the peers, NewBlockOutbox makes a new outbox
\* with a free mutex, no goroutine survives, and the service is not yet started
Crash(c) ==
    /\ UNCHANGED serviceVars
    /\ pc[c] \in {"batch", "wait", "delete"}
    /\ interrupted' = pc[c]
    /\ started' = FALSE
    /\ mux' = "free"
    /\ pc' = [d \in Callers |-> "idle"]
    /\ msgs' = [d \in Callers |-> <<>>]
    /\ wpc' = [d \in Callers |-> [p \in Peers |-> "none"]]
    /\ widx' = [d \in Callers |-> [p \in Peers |-> 0]]
    /\ wseen' = [d \in Callers |-> [p \in Peers |-> <<>>]]
    /\ toDelete' = [d \in Callers |-> <<>>]
    /\ next' = [d \in Callers |-> <<>>]
    /\ didx' = [d \in Callers |-> 0]
    /\ deleted' = [d \in Callers |-> <<>>]
    /\ calls' = [d \in Callers |-> [i \in Ids |-> NoCall]]
    /\ delFailed' = [d \in Callers |-> FALSE]
    /\ concurrent' = [d \in Callers |-> {}]
    /\ addedDuring' = [d \in Callers |-> {}]
    /\ rehandled' = [d \in Callers |-> {}]
    /\ ran' = [d \in Callers |-> FALSE]
    /\ UNCHANGED <<used, blockMessages, contacts>>

\* the executions in which the process can stop during a Flush and restart
\* (and no Add runs during a Flush)
NextCrash ==
    \/ StartService
    \/ \E p \in Peers, e \in Envs : AddWhileIdle(p, e)
    \/ \E c \in Callers : FlushCall(c)
    \/ \E c \in Callers : Flush(c)
    \/ \E c \in Callers : Batch(c)
    \/ \E c \in Callers, p \in Peers : WorkerHandle(c, p)
    \/ \E c \in Callers, p \in Peers : WorkerAppend(c, p)
    \/ \E c \in Callers : NextPage(c)
    \/ \E c \in Callers, ok \in BOOLEAN : Delete(c, ok)
    \/ \E c \in Callers : Recurse(c)
    \/ \E c \in Callers : Unlock(c)
    \/ \E c \in Callers : Crash(c)

SpecCrash == InitQuiet /\ [][NextCrash]_vars

(* ------------------------------------------------------------ the service *)
(* TextileService's handlers (src/net/service/handlers.go): a message read  *)
(* from a stream is dispatched to the handler of its type. Each handler is  *)
(* an operator from the sender, the message, the stores and the one         *)
(* collaborator call that fails (f) to the reply, the error and the stores. *)

\* the message types with a case in HandlerForMsgType
HandledTypes ==
    {"PING", "THREAD_BLOCK", "OFFLINE_ACK", "OFFLINE_RELAY", "BLOCK", "STORE", "ERROR"}

\* HandlerForMsgType(t): the handler, or "nil" in the default case
HandlerForMsgType_unknownAsPing(t) ==
    CASE t \in {"PING", "UNKNOWN"} -> "handlePing"
      [] t = "THREAD_BLOCK" -> "handleThreadBlock"
      [] t = "OFFLINE_ACK" -> "handleOfflineAck"
      [] t = "OFFLINE_RELAY" -> "handleOfflineRelay"
      [] t = "BLOCK" -> "handleBlock"
      [] t = "STORE" -> "handleStore"
      [] t = "ERROR" -> "handleError"
      [] OTHER -> "nil"
HandlerForMsgType(t) ==
    CASE t = "PING" -> "handlePing"
      [] t = "THREAD_BLOCK" -> "handleThreadBlock"
      [] t = "OFFLINE_ACK" -> "handleOfflineAck"
      [] t = "OFFLINE_RELAY" -> "handleOfflineRelay"
      [] t = "BLOCK" -> "handleBlock"
      [] t = "STORE" -> "handleStore"
      [] t = "ERROR" -> "handleError"
      [] OTHER -> "nil"

\* thread secret keys and peer keys; "bad" is a key that does not decrypt or
\* unmarshal
ThreadKeys == {"k1", "k2"}
PeerKeys == {"kA", "kB"}

\* peer.IDFromPublicKey: the id derived from a key
IDFromPublicKey(k) ==
    CASE k = "kA" -> "A" [] k = "kB" -> "B" [] k = "k1" -> "t1" [] k = "k2" -> "t2"

ThreadIds == {"t1", "t2"}
Names == {"n1"}
BlockIds == {"b1"}
BlockTypes == {"INVITE", "PHOTO", "COMMENT", "LIKE", "OTHER"}
Cids == {"c1", "c2"}

\* the texts a message can carry as a cid: the text cid.String() prints for
\* each cid, another encoding of c1, and a text cid.Decode rejects
CidTexts == {"c1", "C1", "c2", "bad"}

\* cid.Decode(text): whether it returns no error, and the cid it returns
cidDecodes(text) == text # "bad"
cidDecode(text) == IF text = "C1" THEN "c1" ELSE text

\* decoded.String()
cidString(c) == c

\* pmes.Payload == nil
NilPayload == [nil |-> TRUE]

Msg(t, p) == [MessageType |-> t, Payload |-> p]

\* the payloads of THREAD_BLOCK: one that does not unmarshal, and the signed
\* blocks (Signer is the key that made Signature; the fields only INVITE
\* reads are fixed in the other types)
ThreadBlockPayloads ==
    {[nil |-> FALSE, decodes |-> FALSE]} \cup
    {b \in [nil : {FALSE}, decodes : {TRUE}, Type : BlockTypes, ThreadId : ThreadIds,
            ThreadName : Names, Id : BlockIds, Target : {self, "A"},
            TargetKey : ThreadKeys \cup {"bad"}, Signer : ThreadKeys,
            IssuerPubKey : {"kA", "bad"}] :
        b.Type # "INVITE" =>
            (b.Target = self /\ b.TargetKey = "k1" /\ b.IssuerPubKey = "kA")}

\* the cid lists of STORE: up to two entries
CidLists ==
    {<<>>} \cup {<<a>> : a \in CidTexts} \cup {<<a, b>> : a \in CidTexts, b \in CidTexts}

\* the messages of every type but OFFLINE_RELAY
PlainMessages ==
    {Msg(t, NilPayload) : t \in HandledTypes \ {"OFFLINE_RELAY"}}
    \cup {Msg("PING", [nil |-> FALSE])}
    \cup {Msg("THREAD_BLOCK", b) : b \in ThreadBlockPayloads}
    \cup {Msg("OFFLINE_ACK", [nil |-> FALSE, decodes |-> d]) : d \in BOOLEAN}
    \cup {Msg("BLOCK", [nil |-> FALSE, decodes |-> FALSE])}
    \cup {Msg("BLOCK", [nil |-> FALSE, decodes |-> TRUE, Cid |-> c]) : c \in Cids \cup {"bad"}}
    \cup {Msg("STORE", [nil |-> FALSE, decodes |-> FALSE])}
    \cup {Msg("STORE", [nil |-> FALSE, decodes |-> TRUE, Cids |-> l]) : l \in CidLists}
    \cup {Msg("ERROR", [nil |-> FALSE, decodes |-> d]) : d \in BOOLEAN}

\* the messages an envelope left at a relay can hold: a message of a type
\* without handler, and the plain messages (of the thread blocks: an INVITE
\* to this peer and a PHOTO, both for t1 and signed with k1; of the cid
\* lists: the one of c1)
InnerMessages ==
    {Msg("UNKNOWN", [nil |-> FALSE])} \cup
    {m \in PlainMessages :
        /\ (m.MessageType = "THREAD_BLOCK" /\ ~m.Payload.nil) =>
              /\ m.Payload.decodes
              /\ m.Payload.Type \in {"INVITE", "PHOTO"}
              /\ m.Payload.ThreadId = "t1"
              /\ m.Payload.Target = self
              /\ m.Payload.TargetKey = "k1"
              /\ m.Payload.Signer = "k1"
              /\ m.Payload.IssuerPubKey = "kA"
        /\ (m.MessageType = "STORE" /\ ~m.Payload.nil) =>
              (m.Payload.decodes => m.Payload.Cids = <<"c1">>)
        /\ (m.MessageType = "BLOCK" /\ ~m.Payload.nil) =>
              (m.Payload.decodes /\ m.Payload.Cid = "c1")}

\* the payloads of OFFLINE_RELAY: a ciphertext that does not decrypt, one
\* that does not unmarshal to an envelope, and the envelopes (Signer is the
\* key that made Signature over the serialized inner message)
RelayPayloads ==
    {[nil |-> FALSE, opens |-> o] : o \in {"undecryptable", "malformed"}} \cup
    {[nil |-> FALSE, opens |-> "ok", Pubkey |-> "bad", Signer |-> "kA",
      Message |-> Msg("PING", [nil |-> FALSE])]} \cup
    [nil : {FALSE}, opens : {"ok"}, Pubkey : PeerKeys, Signer : PeerKeys,
     Message : InnerMessages]

Messages ==
    PlainMessages
    \cup {Msg("OFFLINE_RELAY", NilPayload)}
    \cup {Msg("OFFLINE_RELAY", p) : p \in RelayPayloads}

\* the stores the handlers read and write
Store ==
    [threads |-> threads, peers |-> threadPeers, chain |-> chain,
     pointers |-> pointers, blocks |-> blocks]

\* no call of Thread.HandleBlock; no inner handler call
NoApply == [called |-> FALSE]
NoInner == [called |-> FALSE]

\* what a handler returns (reply NoMessage is a nil reply, err "nil" a nil
\* error), the stores it leaves, and its call of HandleBlock
Result(reply, err, st, hb) ==
    [reply |-> reply, err |-> err, st |-> st, hb |-> hb, inner |-> NoInner]

\* return nil, err
Fail(err, st) == Result(NoMessage, err, st, NoApply)

\* handlePing: the message itself is the reply
handlePing_noReply(pid, pmes, st, f) == Result(NoMessage, "nil", st, NoApply)
handlePing(pid, pmes, st, f) == Result(pmes, "nil", st, NoApply)

\* s.getThread(id): the thread registered under id, or nil
NoThread == [Id |-> "nil"]
getThread(st, id) ==
    IF \E t \in st.threads : t.Id = id
    THEN CHOOSE t \in st.threads : t.Id = id
    ELSE NoThread

\* the thread s.addThread(name, sk) makes: its id is derived from the key
NewThread(name, sk) == [Id |-> IDFromPublicKey(sk), Name |-> name, Key |-> sk]

\* s.addThread(name, sk)
addThread(st, name, sk) == [st EXCEPT !.threads = @ \cup {NewThread(name, sk)}]

\* good, err := key.Verify(data, sig); if err != nil || !good
verified_unchecked(signer, key, f) == TRUE
verified(signer, key, f) == f # "verify" /\ signer = key

\* thrd.HandleBlock(id): on a nil thrd the call dereferences nil
HandleBlock(st, thrd, id, f) ==
    LET hb(err) == [called |-> TRUE, thread |-> thrd.Id, id |-> id, err |-> err] IN
    IF thrd.Id = "nil" THEN Result(NoMessage, "panic", st, hb("panic"))
    ELSE IF f = "handleBlock" THEN Result(NoMessage, "handleBlock", st, hb("handleBlock"))
    ELSE Result(NoMessage, "nil", [st EXCEPT !.chain = @ \cup {<<thrd.Id, id>>}], hb("nil"))

\* the row Peers().Add gets for the inviter
NewPeer_ofBlockThread(st, signed, thrd) ==
    [Row |-> Len(st.peers) + 1, Id |-> IDFromPublicKey(signed.IssuerPubKey),
     ThreadId |-> signed.ThreadId, PubKey |-> signed.IssuerPubKey]
NewPeer(st, signed, thrd) ==
    [Row |-> Len(st.peers) + 1, Id |-> IDFromPublicKey(signed.IssuerPubKey),
     ThreadId |-> thrd.Id, PubKey |-> signed.IssuerPubKey]

\* the INVITE case of handleThreadBlock
handleInvite_anyTarget(signed, thrd, st, f) ==
    IF thrd.Id # "nil" THEN Fail("thread exists", st)
    ELSE IF signed.TargetKey = "bad" THEN Fail("decrypt", st)
    ELSE IF ~verified(signed.Signer, signed.TargetKey, f) THEN Fail("bad signature", st)
    ELSE IF f = "addThread" THEN Fail("addThread", st)
    ELSE LET new == NewThread(signed.ThreadName, signed.TargetKey)
             st1 == addThread(st, signed.ThreadName, signed.TargetKey)
         IN IF signed.IssuerPubKey = "bad" THEN Fail("unmarshal", st1)
            ELSE IF f = "addPeer" THEN Fail("addPeer", st1)
            ELSE HandleBlock([st1 EXCEPT !.peers = Append(@, NewPeer(st, signed, new))],
                             new, signed.Id, f)
handleInvite(signed, thrd, st, f) ==
    IF thrd.Id # "nil" THEN Fail("thread exists", st)
    ELSE IF signed.Target # self THEN Fail("invalid invite target", st)
    ELSE IF signed.TargetKey = "bad" THEN Fail("decrypt", st)
    ELSE IF ~verified(signed.Signer, signed.TargetKey, f) THEN Fail("bad signature", st)
    ELSE IF f = "addThread" THEN Fail("addThread", st)
    ELSE LET new == NewThread(signed.ThreadName, signed.TargetKey)
             st1 == addThread(st, signed.ThreadName, signed.TargetKey)
         IN IF signed.IssuerPubKey = "bad" THEN Fail("unmarshal", st1)
            ELSE IF f = "addPeer" THEN Fail("addPeer", st1)
            ELSE HandleBlock([st1 EXCEPT !.peers = Append(@, NewPeer(st, signed, new))],
                             new, signed.Id, f)

\* the PHOTO case of handleThreadBlock, and the call of HandleBlock after it
handlePhoto_silent(signed, thrd, st, f) ==
    IF thrd.Id = "nil" THEN Result(NoMessage, "nil", st, NoApply)
    ELSE IF ~verified(signed.Signer, thrd.Key, f) THEN Fail("bad signature", st)
    ELSE HandleBlock(st, thrd, signed.Id, f)
handlePhoto(signed, thrd, st, f) ==
    IF thrd.Id = "nil" THEN Fail("thread not found", st)
    ELSE IF ~verified(signed.Signer, thrd.Key, f) THEN Fail("bad signature", st)
    ELSE HandleBlock(st, thrd, signed.Id, f)

\* the block types whose case returns errors.New("TODO")
unsupported_commentOnly(type) == type = "COMMENT"
unsupported(type) == type \in {"COMMENT", "LIKE"}

\* the switch on block.Type and the call of HandleBlock, with the thrd that
\* s.getThread(signed.ThreadId) returned
applyThreadBlock_hidesError(signed, thrd, st, f) ==
    LET r == CASE signed.Type = "INVITE" -> handleInvite(signed, thrd, st, f)
               [] signed.Type = "PHOTO" -> handlePhoto(signed, thrd, st, f)
               [] signed.Type \notin {"INVITE", "PHOTO"} /\ unsupported(signed.Type) ->
                     Fail("TODO", st)
               [] OTHER -> HandleBlock(st, thrd, signed.Id, f)
    IN [r EXCEPT !.err = IF r.hb.called /\ r.err = "handleBlock" THEN "nil" ELSE @]
applyThreadBlock(signed, thrd, st, f) ==
    CASE signed.Type = "INVITE" -> handleInvite(signed, thrd, st, f)
      [] signed.Type = "PHOTO" -> handlePhoto(signed, thrd, st, f)
      [] signed.Type \notin {"INVITE", "PHOTO"} /\ unsupported(signed.Type) ->
            Fail("TODO", st)
      [] OTHER -> HandleBlock(st, thrd, signed.Id, f)

\* handleThreadBlock
handleThreadBlock(pid, pmes, st, f) ==
    IF pmes.Payload.nil THEN Fail("payload is nil", st)
    ELSE IF ~pmes.Payload.decodes THEN Fail("unmarshal", st)
    ELSE applyThreadBlock(pmes.Payload, getThread(st, pmes.Payload.ThreadId), st, f)

\* pointer.CancelId == nil || pointer.CancelId.Pretty() != pid.Pretty(), negated
authorized_anyCanceller(pointer, pid) == pointer.CancelId # "nil"
authorized(pointer, pid) == pointer.CancelId # "nil" /\ pointer.CancelId = pid

\* handleOfflineAck
handleOfflineAck(pid, pmes, st, f) ==
    IF pmes.Payload.nil THEN Fail("payload is nil", st)
    ELSE IF ~pmes.Payload.decodes THEN Fail("b58", st)
    ELSE IF ~st.pointers[pid].exists THEN Fail("get", st)
    ELSE IF ~authorized(st.pointers[pid], pid)
         THEN Fail("peer is not authorized to delete pointer", st)
    ELSE IF f = "delete" THEN Fail("delete", st)
    ELSE Result(NoMessage, "nil", [st EXCEPT !.pointers[pid] = NoPointer], NoApply)

\* handleBlock
handleBlock(pid, pmes, st, f) ==
    IF pmes.Payload.nil THEN Fail("payload is nil", st)
    ELSE IF ~pmes.Payload.decodes THEN Fail("unmarshal", st)
    ELSE IF ~cidDecodes(pmes.Payload.Cid) THEN Fail("cid", st)
    ELSE IF f = "newBlock" THEN Fail("newBlock", st)
    ELSE IF f = "put" THEN Fail("put", st)
    ELSE Result(NoMessage, "nil",
                [st EXCEPT !.blocks = @ \cup {cidDecode(pmes.Payload.Cid)}], NoApply)

\* errorResponse(text) of handleStore
errorResponse_asStore(text) == Msg("STORE", [nil |-> FALSE, decodes |-> TRUE, text |-> text])
errorResponse(text) == Msg("ERROR", [nil |-> FALSE, decodes |-> TRUE, text |-> text])

\* the loop of handleStore: of the ids that decode, those whose Has errs or is
\* false, each as decoded.String()
need_present(cids, st, f) ==
    LET sel == SelectSeq(cids, LAMBDA id : cidDecodes(id) /\ cidDecode(id) \in st.blocks)
    IN [i \in 1..Len(sel) |-> cidString(cidDecode(sel[i]))]
need(cids, st, f) ==
    LET sel == SelectSeq(cids, LAMBDA id :
                   cidDecodes(id) /\ (f = "has" \/ cidDecode(id) \notin st.blocks))
    IN [i \in 1..Len(sel) |-> cidString(cidDecode(sel[i]))]

\* handleStore
handleStore(pid, pmes, st, f) ==
    IF pmes.Payload.nil THEN Fail("payload is nil", st)
    ELSE IF ~pmes.Payload.decodes
         THEN Result(errorResponse("could not unmarshall message"), "unmarshal", st, NoApply)
    ELSE Result(Msg("STORE", [nil |-> FALSE, decodes |-> TRUE,
                              Cids |-> need(pmes.Payload.Cids, st, f)]),
                "nil", st, NoApply)

\* handleError
handleError(pid, pmes, st, f) ==
    IF pmes.Payload.nil THEN Fail("payload is nil", st)
    ELSE IF ~pmes.Payload.decodes THEN Fail("unmarshal", st)
    ELSE Result(NoMessage, "nil", st, NoApply)

\* the call handler(id, env.Message, true) for a handler other than
\* handleOfflineRelay
CallHandler(handler, pid, pmes, st, f) ==
    CASE handler = "handlePing" -> handlePing(pid, pmes, st, f)
      [] handler = "handleThreadBlock" -> handleThreadBlock(pid, pmes, st, f)
      [] handler = "handleOfflineAck" -> handleOfflineAck(pid, pmes, st, f)
      [] handler = "handleBlock" -> handleBlock(pid, pmes, st, f)
      [] handler = "handleStore" -> handleStore(pid, pmes, st, f)
      [] handler = "handleError" -> handleError(pid, pmes, st, f)

\* valid, err := pubkey.Verify(ser, env.Signature); if err != nil || !valid
rejected(valid, verr) == verr \/ ~valid

\* the err of "return nil, err" in that branch: Verify's error, nil if none
rejectErr(valid, verr) == IF verr THEN "verify" ELSE "nil"

\* the id handleOfflineRelay passes to the inner handler
innerSender_deliverer(pid, pubkey) == pid
innerSender(pid, pubkey) == IDFromPublicKey(pubkey)

\* the reply handleOfflineRelay returns after the inner handler returned
\* reply: "_, err = handler(...)" drops it
relayReply_inner(reply) == reply
relayReply(reply) == NoMessage

\* handleOfflineRelay
handleOfflineRelay(pid, pmes, st, f) ==
    IF pmes.Payload.nil THEN Fail("payload is nil", st)
    ELSE IF pmes.Payload.opens = "undecryptable" THEN Fail("decrypt", st)
    ELSE IF pmes.Payload.opens = "malformed" THEN Fail("unmarshal", st)
    ELSE LET env == pmes.Payload
             valid == env.Signer = env.Pubkey
             verr == f = "verify"
             id == innerSender(pid, env.Pubkey)
             handler == HandlerForMsgType(env.Message.MessageType)
         IN IF env.Pubkey = "bad" THEN Fail("unmarshal", st)
            ELSE IF rejected(valid, verr) THEN Fail(rejectErr(valid, verr), st)
            ELSE IF handler = "nil" THEN Fail("nil", st)
            ELSE LET r == CallHandler(handler, id, env.Message, st, f)
                 IN [reply |-> relayReply(r.reply), err |-> r.err, st |-> r.st, hb |-> r.hb,
                     inner |-> [called |-> TRUE, handler |-> handler, sender |-> id,
                                msg |-> env.Message, reply |-> r.reply, err |-> r.err]]

\* a decodable INVITE block
IsInvite(m) ==
    /\ m.MessageType = "THREAD_BLOCK"
    /\ ~m.Payload.nil
    /\ m.Payload.decodes
    /\ m.Payload.Type = "INVITE"

\* the INVITE a message carries, directly or in its envelope, if any
Invites(m) ==
    IF IsInvite(m) THEN {m.Payload}
    ELSE IF m.MessageType = "OFFLINE_RELAY" /\ ~m.Payload.nil /\ m.Payload.opens = "ok"
            /\ IsInvite(m.Payload.Message)
         THEN {m.Payload.Message.Payload}
    ELSE {}

\* the service starts with no thread, peer row or block; the pointers
\* datastore holds a pointer for B that A may cancel, and for A none or any
InitService ==
    /\ InitOutbox
    /\ contacts["P2"] = NoContact
    /\ threads = {}
    /\ threadPeers = <<>>
    /\ chain = {}
    /\ pointers \in {p \in [PeerIds -> PointerValues] :
                        p["B"] = [exists |-> TRUE, CancelId |-> "A"]}
    /\ blocks = {}
    /\ inflight = NoMessage
    /\ last = NoDispatch
    /\ admitted = {}
    /\ running = [h \in Handlers |-> Idle]

\* the senders the model draws for a message: every peer for the types whose
\* handler reads the sender or derives another, one peer for the others
Senders(pmes) ==
    IF pmes.MessageType \in {"OFFLINE_ACK", "OFFLINE_RELAY"} THEN PeerIds ELSE {"A"}

\* a message from peer pid is read from a stream (an INVITE only while the
\* peers table has a row left for the inviter)
Receive(pid, pmes) ==
    /\ inflight.MessageType = "NONE"
    /\ ~last.done
    /\ pid \in Senders(pmes)
    /\ Invites(pmes) # {} => Len(threadPeers) < MaxRows
    /\ inflight' = [MessageType |-> pmes.MessageType, Payload |-> pmes.Payload,
                    From |-> pid]
    /\ last' = NoDispatch
    /\ UNCHANGED <<threads, threadPeers, chain, pointers, blocks, admitted, running>>
    /\ UNCHANGED outboxVars

\* the message to dispatch
Pmes == Msg(inflight.MessageType, inflight.Payload)

\* the handler returns r: the stores are as it left them, and the history
\* records the dispatch
Respond(r) ==
    /\ threads' = r.st.threads
    /\ threadPeers' = r.st.peers
    /\ chain' = r.st.chain
    /\ pointers' = r.st.pointers
    /\ blocks' = r.st.blocks
    /\ inflight' = NoMessage
    /\ last' = [done |-> TRUE, sender |-> inflight.From, msg |-> Pmes,
                reply |-> r.reply, err |-> r.err, hb |-> r.hb, inner |-> r.inner]
    /\ admitted' = IF r.err = "nil" /\ (r.inner.called \/ IsInvite(Pmes))
                   THEN admitted \cup {i.ThreadId : i \in Invites(Pmes)}
                   ELSE admitted
    /\ UNCHANGED <<running, outboxVars>>

\* the reply and the error have been passed to the stream
Reply ==
    /\ last.done
    /\ last' = NoDispatch
    /\ UNCHANGED <<threads, threadPeers, chain, pointers, blocks, inflight, admitted,
                   running>>
    /\ UNCHANGED outboxVars

DispatchPing ==
    /\ HandlerForMsgType(inflight.MessageType) = "handlePing"
    /\ Respond(handlePing(inflight.From, Pmes, Store, "none"))

DispatchThreadBlock ==
    /\ HandlerForMsgType(inflight.MessageType) = "handleThreadBlock"
    /\ \E f \in {"none", "verify", "addThread", "addPeer", "handleBlock"} :
          Respond(handleThreadBlock(inflight.From, Pmes, Store, f))

DispatchOfflineAck ==
    /\ HandlerForMsgType(inflight.MessageType) = "handleOfflineAck"
    /\ \E f \in {"none", "delete"} :
          Respond(handleOfflineAck(inflight.From, Pmes, Store, f))

DispatchOfflineRelay ==
    /\ HandlerForMsgType(inflight.MessageType) = "handleOfflineRelay"
    /\ \E f \in {"none", "verify", "addThread", "addPeer", "handleBlock", "delete",
                 "newBlock", "put", "has"} :
          Respond(handleOfflineRelay(inflight.From, Pmes, Store, f))

DispatchBlock ==
    /\ HandlerForMsgType(inflight.MessageType) = "handleBlock"
    /\ \E f \in {"none", "newBlock", "put"} :
          Respond(handleBlock(inflight.From, Pmes, Store, f))

DispatchStore ==
    /\ HandlerForMsgType(inflight.MessageType) = "handleStore"
    /\ \E f \in {"none", "has"} :
          Respond(handleStore(inflight.From, Pmes, Store, f))

DispatchError ==
    /\ HandlerForMsgType(inflight.MessageType) = "handleError"
    /\ Respond(handleError(inflight.From, Pmes, Store, "none"))

NextService ==
    \/ \E pid \in PeerIds, pmes \in Messages : Receive(pid, pmes)
    \/ DispatchPing
    \/ DispatchThreadBlock
    \/ DispatchOfflineAck
    \/ DispatchOfflineRelay
    \/ DispatchBlock
    \/ DispatchStore
    \/ DispatchError
    \/ Reply

SpecService == InitService /\ [][NextService]_vars

\* the INVITE blocks two goroutines apply concurrently: those addressed to
\* this peer
ConcurrentInvites ==
    {b \in ThreadBlockPayloads : b.decodes /\ b.Type = "INVITE" /\ b.Target = self}

\* the goroutines between the thread lookup and the end of the application
Looked == {h \in Handlers : running[h].pc = "looked"}

\* goroutine h runs handleThreadBlock up to thrd := s.getThread(signed.ThreadId)
\* (a block is taken only while the peers table has a row left for its
\* inviter); overlap records that another goroutine is past its lookup and
\* has not applied its block
LookupThread(h, signed) ==
    /\ running[h].pc = "idle"
    /\ Len(threadPeers) + Cardinality(Looked) < MaxRows
    /\ running' = [g \in Handlers |->
                      IF g = h
                      THEN [pc |-> "looked", signed |-> signed,
                            thrd |-> getThread(Store, signed.ThreadId),
                            overlap |-> Looked # {}]
                      ELSE IF g \in Looked THEN [running[g] EXCEPT !.overlap = TRUE]
                      ELSE running[g]]
    /\ UNCHANGED <<threads, threadPeers, chain, pointers, blocks, inflight, last, admitted>>
    /\ UNCHANGED outboxVars

\* goroutine h runs the rest of handleThreadBlock with the thrd it looked up
ApplyBlock(h) ==
    /\ running[h].pc = "looked"
    /\ \E f \in {"none", "verify", "addThread", "addPeer", "handleBlock"} :
          LET r == applyThreadBlock(running[h].signed, running[h].thrd, Store, f)
          IN /\ threads' = r.st.threads
             /\ threadPeers' = r.st.peers
             /\ chain' = r.st.chain
             /\ running' = [running EXCEPT ![h] =
                                [pc |-> "returned", signed |-> running[h].signed,
                                 err |-> r.err, overlap |-> running[h].overlap]]
    /\ UNCHANGED <<pointers, blocks, inflight, last, admitted>>
    /\ UNCHANGED outboxVars

\* the error of goroutine h has been passed to the stream
Return(h) ==
    /\ running[h].pc = "returned"
    /\ running' = [running EXCEPT ![h] = Idle]
    /\ UNCHANGED <<threads, threadPeers, chain, pointers, blocks, inflight, last, admitted>>
    /\ UNCHANGED outboxVars

NextInvites ==
    \/ \E h \in Handlers, signed \in ConcurrentInvites : LookupThread(h, signed)
    \/ \E h \in Handlers : ApplyBlock(h)
    \/ \E h \in Handlers : Return(h)

\* handleThreadBlock run by two goroutines on INVITE blocks, from the service
\* at rest
InitInvites == InitOutbox /\ contacts["P2"] = NoContact /\ ServiceAtRest
SpecInvites == InitInvites /\ [][NextInvites]_vars

(* ------------------------------------------------------------------ claims *)


\* handle found the destination unreachable: service offline or not connected
Unreachable(r) == r.done /\ (~r.online \/ r.conn = "no")

\* the destination of the call has a known inbox
KnownInbox(r) == r.done /\ hasInbox(contacts[r.peer])

\* the ids handle was called with for peer p in caller c's Flush
HandledFor(c, p) == {id \in Ids : calls[c][id].done /\ calls[c][id].peer = p}

\* C1: a message whose destination was unreachable and has no known inbox is
\* still in the queue when Flush returns.
C1_NoInboxLeftPending ==
    \A c \in Callers, id \in Ids :
        (pc[c] = "unlock" /\ Unreachable(calls[c][id]) /\ ~KnownInbox(calls[c][id]))
            => id \in QueuedIds

\* C2: when Flush returns, and no handoff and no Delete returned an error, the
\* messages of a peer that was unreachable and has a known inbox have all been
\* handed to AddForInbox with the peer's inboxes and none is left in the queue.
C2_RelayDelivery ==
    \A c \in Callers, p \in Peers :
        (/\ pc[c] = "unlock"
         /\ \A id \in HandledFor(c, p) :
               /\ Unreachable(calls[c][id])
               /\ KnownInbox(calls[c][id])
               /\ calls[c][id].relay # "err")
        => \A id \in HandledFor(c, p) :
               /\ calls[c][id].relay = "ok"
               /\ calls[c][id].inboxes = contacts[p].Inboxes
               /\ id \notin QueuedIds

\* C3: a message for an unreachable peer with a known inbox whose envelope no
\* relay handoff accepted stays in the queue throughout the Flush and at its
\* return.
C3_RelayFailureKeepsQueued ==
    \A c \in Callers, id \in Ids :
        (/\ InFlush(c)
         /\ Unreachable(calls[c][id])
         /\ KnownInbox(calls[c][id])
         /\ calls[c][id].relay # "ok")
        => calls[c][id].msg \in blockMessages

\* a Flush is returning with two messages of one peer whose handoffs failed
C3_Witness ==
    \E c \in Callers, i \in Ids, j \in Ids :
        /\ i # j
        /\ pc[c] = "unlock"
        /\ Unreachable(calls[c][i]) /\ calls[c][i].relay = "err"
        /\ Unreachable(calls[c][j]) /\ calls[c][j].relay = "err"
        /\ calls[c][i].peer = calls[c][j].peer

\* C4: a message leaves the queue only if, in that Flush, its direct send or a
\* relay handoff of its envelope returned no error.
C4_RemovedOnlyIfDelivered ==
    [][\A id \in Ids :
          (id \in QueuedIds /\ id \notin QueuedIds')
              => \E c \in Callers : Delivered(calls[c][id])]_vars

\* C5: at most one caller is inside Flush's critical section, and only that
\* caller has goroutines.
C5_FlushMutualExclusion ==
    /\ \A c \in Callers, d \in Callers : (c # d /\ InFlush(c)) => ~InFlush(d)
    /\ \A c \in Callers : InFlush(c) => mux = c
    /\ \A c \in Callers, p \in Peers : wpc[c][p] # "none" => mux = c

\* one caller's goroutines are running while the other caller waits for the lock
C5_Witness ==
    \E c \in Callers, d \in Callers, p \in Peers :
        /\ c # d
        /\ pc[c] = "wait" /\ wpc[c][p] = "run"
        /\ pc[d] = "lock"

\* C6: when no Delete fails, a message delivered by a Flush is not delivered
\* again by a Flush that was called during it, and no id is passed to Delete
\* after it has left the queue.
C6_NoDuplicateAcrossFlushes ==
    \A c \in Callers :
        /\ \A id \in concurrent[c] : ~Delivered(calls[c][id])
        /\ (pc[c] = "delete" /\ didx[c] <= Len(toDelete[c]))
               => toDelete[c][didx[c]] \in QueuedIds

\* C7: a message whose handle returned an error is still in the queue, with
\* the same id, peer, envelope and date, and every id in toDelete is of a
\* message whose handle returned no error.
C7_DeleteOnlyOnSuccess ==
    \A c \in Callers :
        InFlush(c) =>
            /\ \A id \in Ids :
                  (calls[c][id].done /\ calls[c][id].err)
                      => calls[c][id].msg \in blockMessages
            /\ \A i \in 1..Len(toDelete[c]) :
                  /\ calls[c][toDelete[c][i]].done
                  /\ ~calls[c][toDelete[c][i]].err

\* a Flush is returning after a handle error on one message and the delete of
\* another
C7_Witness ==
    \E c \in Callers, i \in Ids, j \in Ids :
        /\ pc[c] = "unlock"
        /\ calls[c][i].done /\ calls[c][i].err /\ i \in QueuedIds
        /\ calls[c][j].done /\ ~calls[c][j].err /\ j \notin QueuedIds

\* the peers that have a group in the page
GroupsOf(ms) == {ms[i].Peer : i \in 1..Len(ms)}

\* C8: when no Delete fails, after the delete loop of a page with two or more
\* groups every message of the page whose handle returned no error is out of
\* the queue, and toDelete holds no id twice.
C8_WorkersReportEverySuccess ==
    \A c \in Callers :
        (/\ pc[c] = "delete"
         /\ didx[c] > Len(toDelete[c])
         /\ Cardinality(GroupsOf(msgs[c])) >= 2)
        => /\ \A i \in 1..Len(msgs[c]) :
                 (calls[c][msgs[c][i].Id].done /\ ~calls[c][msgs[c][i].Id].err)
                     => msgs[c][i].Id \notin QueuedIds
           /\ \A i \in 1..Len(toDelete[c]), j \in 1..Len(toDelete[c]) :
                 toDelete[c][i] = toDelete[c][j] => i = j

\* C9: every call of handle that found the service offline, or whose
\* connection check failed or returned an error, or whose direct send
\* returned an error, for a destination with a known inbox, called
\* AddForInbox with those inboxes.
C9_FallbackToInbox ==
    \A c \in Callers, id \in Ids :
        (/\ calls[c][id].done
         /\ \/ ~calls[c][id].online
            \/ calls[c][id].conn \in {"no", "err"}
            \/ calls[c][id].send = "err"
         /\ KnownInbox(calls[c][id]))
        => /\ calls[c][id].relay # "none"
           /\ calls[c][id].inboxes = contacts[calls[c][id].peer].Inboxes

\* C10: handle calls SendMessage exactly when the service is online and
\* SwarmConnected answered connected; when the service is offline it calls
\* neither SwarmConnected nor SendMessage.
C10_DirectSendPrecondition ==
    \A c \in Callers, id \in Ids :
        calls[c][id].done =>
            /\ (calls[c][id].send # "none")
                   <=> (calls[c][id].online /\ calls[c][id].conn = "yes")
            /\ ~calls[c][id].online
                   => (calls[c][id].conn = "none" /\ calls[c][id].send = "none")

\* in one Flush handle has sent a message directly, has handled one with the
\* service offline, and one with the peer not connected
C10_Witness ==
    \E c \in Callers, i \in Ids, j \in Ids, k \in Ids :
        /\ calls[c][i].done /\ calls[c][i].send = "ok"
        /\ calls[c][j].done /\ ~calls[c][j].online
        /\ calls[c][k].done /\ calls[c][k].conn = "no"

\* the elements of a sequence
Range(s) == {s[i] : i \in 1..Len(s)}

\* the ids that were in the queue when caller c's Flush took its first page
AtStart(c) ==
    {id \in Ids : (id \in QueuedIds \/ calls[c][id].done) /\ id \notin addedDuring[c]}

\* C11: in the delete loop every id already passed to Delete is either
\* deleted and out of the queue or, its Delete having failed, still queued
\* with its message, whatever happened to the ids before it; and a Flush that
\* found a service returns only after it has handled every message that was
\* queued when it began, whether or not a Delete failed, so that a message
\* left by a failed Delete is handled again by the next Flush.
C11_DeleteFailureIsSafe ==
    \A c \in Callers :
        /\ pc[c] = "delete" =>
               \A i \in 1..(didx[c] - 1) :
                   IF toDelete[c][i] \in Range(deleted[c])
                   THEN toDelete[c][i] \notin QueuedIds
                   ELSE calls[c][toDelete[c][i]].msg \in blockMessages
        /\ (pc[c] = "unlock" /\ ran[c]) =>
               \A id \in AtStart(c) : calls[c][id].done

\* the delete loop of a page has ended after the Delete of its first id failed
\* and the Delete of its second id succeeded, and a next page is loaded
C11_Witness ==
    \E c \in Callers :
        /\ pc[c] = "delete"
        /\ didx[c] = 3
        /\ delFailed[c]
        /\ toDelete[c][1] \in QueuedIds
        /\ toDelete[c][2] \notin QueuedIds
        /\ next[c] # <<>>

\* C12: with no Add running during a Flush, every call of Flush returns and
\* releases the lock, whatever handle and Delete answer.
C12_FlushTerminates ==
    \A c \in Callers : (pc[c] # "idle") ~> (pc[c] = "idle" /\ mux # c)

\* a Flush is returning after it went through two pages and every message
\* it handled is still in the queue
C12_Witness ==
    \E c \in Callers :
        /\ pc[c] = "unlock"
        /\ ran[c]
        /\ QueuedIds = Ids
        /\ \A id \in Ids : calls[c][id].done

\* ksuid.New() has an id left to issue
IdAvailable == \E id \in Ids \ used : TimeOf(id) >= Now

\* C13: while a Flush is in its critical section Add can complete; a message
\* added during a Flush is handled by that Flush at most once, is in the
\* queue until that Flush has handled it, and when the Flush returns every
\* message it did not handle is one that was added during it and is in the
\* queue, where the next Flush, starting from the first id, finds it.
C13_AddDuringFlush ==
    \A c \in Callers :
        /\ (InFlush(c) /\ IdAvailable) => ENABLED Add("P1", "e1")
        /\ addedDuring[c] \cap rehandled[c] = {}
        /\ \A id \in addedDuring[c] : calls[c][id].done \/ id \in QueuedIds
        /\ (pc[c] = "unlock" /\ ran[c]) =>
               \A id \in QueuedIds : calls[c][id].done \/ id \in addedDuring[c]

\* a Flush is returning: of two messages added during it, it has handled one
\* in a later page and the other, with an id before that page, is still queued
C13_Witness ==
    \E c \in Callers, i \in Ids, j \in Ids :
        /\ pc[c] = "unlock"
        /\ {i, j} \subseteq addedDuring[c]
        /\ calls[c][j].done
        /\ ~calls[c][i].done /\ i \in QueuedIds /\ i < j

\* the smallest id in the queue
MinQueued == CHOOSE i \in QueuedIds : \A j \in QueuedIds : i <= j

\* C14 as stated: when the first Flush after a restart returns, it has handled
\* every message that was in the queue when it began.
C14_FirstFlushHandlesAll ==
    \A c \in Callers :
        (pc[c] = "unlock" /\ interrupted # "none")
            => \A id \in AtStart(c) : calls[c][id].done

\* C14, amended: a restart that interrupts a Flush before, during or after
\* its goroutines or in its delete loop leaves the queue as it was and the
\* mutex free; the first Flush after it that finds a service takes its first
\* page from the smallest id, and has handled every message that was in the
\* queue when it began by the time it returns.
C14_CrashRestartSafety ==
    [][\A c \in Callers :
          /\ (pc[c] \in {"batch", "wait", "delete"} /\ pc'[c] = "idle")
                 => (blockMessages' = blockMessages /\ mux' = "free")
          /\ (interrupted # "none" /\ pc[c] = "lock" /\ pc'[c] = "batch"
                                    /\ blockMessages # {})
                 => (Len(msgs'[c]) > 0 /\ msgs'[c][1].Id = MinQueued)
          /\ (interrupted # "none" /\ pc[c] = "unlock" /\ ran[c])
                 => \A id \in AtStart(c) : calls[c][id].done]_vars

\* the first Flush after a restart that interrupted a delete loop is returning
\* and has handled two messages that were queued when it began
C14_Witness ==
    \E c \in Callers, i \in Ids, j \in Ids :
        /\ i # j
        /\ pc[c] = "unlock"
        /\ interrupted = "delete"
        /\ ran[c]
        /\ {i, j} \subseteq AtStart(c)
        /\ calls[c][i].done /\ calls[c][j].done

\* C15: while a goroutine of a page is running no message of the page has
\* left the queue; the delete loop runs only when no goroutine is left and
\* handle has been called for every message of the page; and no message of
\* the next page is handled before the delete loop has ended.
C15_PageBarrier ==
    \A c \in Callers :
        /\ \A p \in Peers :
              wpc[c][p] \in {"run", "append"} =>
                  /\ pc[c] = "wait"
                  /\ \A i \in 1..Len(msgs[c]) : msgs[c][i] \in blockMessages
        /\ pc[c] = "delete" =>
              /\ \A p \in Peers : wpc[c][p] = "none"
              /\ \A i \in 1..Len(msgs[c]) : calls[c][msgs[c][i].Id].done
              /\ \A i \in 1..Len(next[c]) : ~calls[c][next[c][i].Id].done

\* the delete loop of a page with two groups begins with both messages to
\* delete, and a next page is loaded
C15_Witness ==
    \E c \in Callers :
        /\ pc[c] = "delete"
        /\ didx[c] = 1
        /\ Cardinality(GroupsOf(msgs[c])) = 2
        /\ Len(toDelete[c]) = 2
        /\ next[c] # <<>>

\* the stores of the service
stores == <<threads, threadPeers, chain, pointers, blocks>>

\* C16: a dispatch of a message of a handled type whose payload is nil returns
\* the error "payload is nil" and no reply, and leaves every store as it was.
C16_NilPayloadRejected ==
    [][(/\ inflight.MessageType \in HandledTypes
        /\ inflight.Payload.nil
        /\ last'.done)
       => (/\ last'.err = "payload is nil"
           /\ last'.reply.MessageType = "NONE"
           /\ stores' = stores)]_vars

\* the calls of handleOfflineAck in dispatch l: of the message itself, or of
\* the message of a relayed envelope
AckCalls(l) ==
    IF ~l.done THEN {}
    ELSE IF l.msg.MessageType = "OFFLINE_ACK"
         THEN {[sender |-> l.sender, msg |-> l.msg, err |-> l.err]}
    ELSE IF l.inner.called /\ l.inner.handler = "handleOfflineAck"
         THEN {[sender |-> l.inner.sender, msg |-> l.inner.msg, err |-> l.inner.err]}
    ELSE {}

\* C17: a pointer leaves the store only in a dispatch of an OFFLINE_ACK whose
\* sender is the pointer's key and equals its CancelId; an OFFLINE_ACK with a
\* decodable payload from a sender whose pointer has another CancelId, or
\* none, returns the error "peer is not authorized to delete pointer" and
\* leaves the pointers as they were.
C17_OfflineAckAuthorization ==
    [][/\ \A p \in PeerIds :
             (pointers[p].exists /\ ~pointers'[p].exists)
                 => /\ \E a \in AckCalls(last') : a.sender = p
                    /\ pointers[p].CancelId = p
       /\ \A a \in AckCalls(last') :
             (/\ ~a.msg.Payload.nil
              /\ a.msg.Payload.decodes
              /\ pointers[a.sender].exists
              /\ pointers[a.sender].CancelId # a.sender)
                 => /\ a.err = "peer is not authorized to delete pointer"
                    /\ pointers' = pointers]_vars

\* an OFFLINE_ACK from A has deleted A's pointer, and B's pointer is in place
C17_Witness ==
    /\ last.done
    /\ last.msg.MessageType = "OFFLINE_ACK"
    /\ last.sender = "A"
    /\ last.err = "nil"
    /\ ~pointers["A"].exists
    /\ pointers["B"].exists

\* C18: the handler of the inner message of an OFFLINE_RELAY is called only
\* with an envelope that decrypted and unmarshalled and whose signature is by
\* the key of the envelope, with that inner message, and with the id derived
\* from that key as the sender.
C18_RelayAuthentication ==
    (last.done /\ last.inner.called) =>
        /\ last.msg.MessageType = "OFFLINE_RELAY"
        /\ ~last.msg.Payload.nil
        /\ last.msg.Payload.opens = "ok"
        /\ last.msg.Payload.Pubkey \in PeerKeys
        /\ last.msg.Payload.Signer = last.msg.Payload.Pubkey
        /\ last.inner.msg = last.msg.Payload.Message
        /\ last.inner.sender = IDFromPublicKey(last.msg.Payload.Pubkey)

\* an envelope signed by A and delivered by B has been dispatched: its
\* OFFLINE_ACK was handled with A as the sender and deleted A's pointer
C18_Witness ==
    /\ last.done
    /\ last.inner.called
    /\ last.sender = "B"
    /\ last.inner.sender = "A"
    /\ last.inner.handler = "handleOfflineAck"
    /\ last.err = "nil"
    /\ ~pointers["A"].exists

\* C19: handleOfflineRelay returns an error for an envelope whose signature
\* is not by the key of the envelope.
C19_BadSignatureIsAnError ==
    (/\ last.done
     /\ last.msg.MessageType = "OFFLINE_RELAY"
     /\ ~last.msg.Payload.nil
     /\ last.msg.Payload.opens = "ok"
     /\ last.msg.Payload.Pubkey \in PeerKeys
     /\ last.msg.Payload.Signer # last.msg.Payload.Pubkey)
    => last.err # "nil"

\* C20: the dispatch of an INVITE whose thread id is that of an INVITE applied
\* before without error returns the error "thread exists" and leaves the
\* thread registry and the peers table as they were.
C20_InviteReplayRejected ==
    [][(/\ inflight.MessageType = "THREAD_BLOCK"
        /\ ~inflight.Payload.nil
        /\ inflight.Payload.decodes
        /\ inflight.Payload.Type = "INVITE"
        /\ inflight.Payload.ThreadId \in admitted
        /\ last'.done)
       => (/\ last'.err = "thread exists"
           /\ threads' = threads
           /\ threadPeers' = threadPeers)]_vars

\* the calls of handleThreadBlock in dispatch l with a payload that
\* unmarshals: of the message itself, or of the message of a relayed envelope
ThreadBlockCalls(l) ==
    LET direct == IF l.done /\ l.msg.MessageType = "THREAD_BLOCK"
                  THEN {[msg |-> l.msg, err |-> l.err]} ELSE {}
        relayed == IF l.done /\ l.inner.called /\ l.inner.handler = "handleThreadBlock"
                   THEN {[msg |-> l.inner.msg, err |-> l.inner.err]} ELSE {}
    IN {c \in direct \cup relayed : ~c.msg.Payload.nil /\ c.msg.Payload.decodes}

\* those of a block of type ty
BlockCalls(l, ty) == {c \in ThreadBlockCalls(l) : c.msg.Payload.Type = ty}

\* every thread of the registry has a row in the peers table
EveryThreadHasPeer ==
    \A t \in threads : \E i \in 1..Len(threadPeers) : threadPeers[i].ThreadId = t.Id

\* C21: an application of an INVITE that returns an error leaves the thread
\* registry and the peers table as they were, and every thread of the
\* registry has its inviter in the peers table.
C21_InviteAtomicity ==
    [][/\ \A c \in BlockCalls(last', "INVITE") :
             c.err # "nil" => (threads' = threads /\ threadPeers' = threadPeers)
       /\ EveryThreadHasPeer']_vars

C23_PhotoWithoutThread ==
    [][\A c \in BlockCalls(last', "PHOTO") :
          (\A t \in threads : t.Id # c.msg.Payload.ThreadId)
              => /\ c.err = "thread not found"
                 /\ ~last'.hb.called
                 /\ stores' = stores]_vars

\* a PHOTO for a thread that is not registered was rejected while another
\* thread is registered
C23_Witness ==
    /\ \E c \in BlockCalls(last, "PHOTO") :
          /\ c.err = "thread not found"
          /\ \A t \in threads : t.Id # c.msg.Payload.ThreadId
    /\ threads # {}

\* C24: an application of a PHOTO whose thread is registered calls
\* HandleBlock only if the signature is by the thread's key; when HandleBlock
\* is not called the error is "bad signature" and the chain is as it was.
C24_PhotoSignature ==
    [][\A c \in BlockCalls(last', "PHOTO") :
          \A t \in threads :
             t.Id = c.msg.Payload.ThreadId
                 => /\ last'.hb.called => c.msg.Payload.Signer = t.Key
                    /\ ~last'.hb.called => (c.err = "bad signature" /\ chain' = chain)]_vars

\* a PHOTO signed with the key of its thread is in the chain, and a PHOTO
\* signed with another key has then been rejected
C24_Witness ==
    /\ chain # {}
    /\ \E c \in BlockCalls(last, "PHOTO") :
          /\ c.err = "bad signature"
          /\ \E t \in threads :
                t.Id = c.msg.Payload.ThreadId /\ t.Key # c.msg.Payload.Signer

\* C25: an application of a COMMENT or LIKE block returns an error, does not
\* call HandleBlock and leaves every store as it was.
C25_CommentLikeRejected ==
    [][\A c \in BlockCalls(last', "COMMENT") \cup BlockCalls(last', "LIKE") :
          /\ c.err # "nil"
          /\ ~last'.hb.called
          /\ stores' = stores]_vars

\* a LIKE for a registered thread and signed with its key has been rejected
C25_Witness ==
    \E c \in BlockCalls(last, "LIKE") :
       /\ c.err # "nil"
       /\ \E t \in threads :
             t.Id = c.msg.Payload.ThreadId /\ t.Key = c.msg.Payload.Signer

\* the calls of handler h in dispatch l: of the message itself, or of the
\* message of a relayed envelope
Calls(l, h) ==
    LET direct == IF l.done /\ HandlerForMsgType(l.msg.MessageType) = h
                  THEN {[msg |-> l.msg, reply |-> l.reply, err |-> l.err]} ELSE {}
        relayed == IF l.done /\ l.inner.called /\ l.inner.handler = h
                   THEN {[msg |-> l.inner.msg, reply |-> l.inner.reply,
                          err |-> l.inner.err]}
                   ELSE {}
    IN direct \cup relayed

\* the calls of handleStore with a payload that unmarshals to a CidList
StoreCalls(l) ==
    {c \in Calls(l, "handleStore") : ~c.msg.Payload.nil /\ c.msg.Payload.decodes}

\* a is b without some of its entries, the others in the order of b
RECURSIVE IsSubseq(_, _)
IsSubseq(a, b) ==
    IF a = <<>> THEN TRUE
    ELSE IF b = <<>> THEN FALSE
    ELSE IF Head(a) = Head(b) THEN IsSubseq(Tail(a), Tail(b))
    ELSE IsSubseq(a, Tail(b))

\* the ids of list l that decode, as they are
WellFormed(l) == SelectSeq(l, cidDecodes)

MessageTypes == HandledTypes \cup {"UNKNOWN"}

\* C27: HandlerForMsgType returns a handler for the seven handled types and
\* nil for another type; an OFFLINE_RELAY whose envelope opens and holds a
\* message of another type returns no reply and no error (but the error of
\* Verify, if it returns one), calls no handler and leaves every store as it
\* was.
C27_UnrecognizedType ==
    [][/\ \A t \in MessageTypes : HandlerForMsgType(t) # "nil" <=> t \in HandledTypes
       /\ (/\ last'.done
           /\ last'.msg.MessageType = "OFFLINE_RELAY"
           /\ ~last'.msg.Payload.nil
           /\ last'.msg.Payload.opens = "ok"
           /\ last'.msg.Payload.Pubkey \in PeerKeys
           /\ last'.msg.Payload.Message.MessageType \notin HandledTypes)
          => (/\ last'.reply.MessageType = "NONE"
              /\ last'.err \in {"nil", "verify"}
              /\ ~last'.inner.called
              /\ ~last'.hb.called
              /\ stores' = stores)]_vars

\* an envelope with a valid signature and a message of a type without
\* handler has been dispatched without error, with a block in the store
C27_Witness ==
    /\ last.done
    /\ last.msg.MessageType = "OFFLINE_RELAY"
    /\ ~last.msg.Payload.nil
    /\ last.msg.Payload.opens = "ok"
    /\ last.msg.Payload.Pubkey = last.msg.Payload.Signer
    /\ last.msg.Payload.Message.MessageType = "UNKNOWN"
    /\ last.err = "nil"
    /\ blocks # {}

\* C28: a call of handlePing returns the message it got as the reply and no
\* error, and leaves every store as it was.
C28_PingEcho ==
    [][\A c \in Calls(last', "handlePing") :
          /\ c.reply = c.msg
          /\ c.err = "nil"
          /\ stores' = stores]_vars

\* a PING with a payload has been answered with itself
C28_Witness ==
    /\ last.done
    /\ last.msg.MessageType = "PING"
    /\ ~last.msg.Payload.nil
    /\ last.reply = last.msg
    /\ last.err = "nil"

\* the registry entries, peer rows and chain entries of the threads other
\* than T
OtherThreads(T) == {t \in threads : t.Id # T}
OtherPeers(T) == SelectSeq(threadPeers, LAMBDA r : r.ThreadId # T)
OtherChains(T) == {e \in chain : e[1] # T}

\* C30: an application of a thread block with thread id T that returns an
\* error leaves the registry entries, the peer rows and the chains of every
\* other thread as they were.
C30_ThreadIsolation ==
    [][\A c \in ThreadBlockCalls(last') :
          c.err # "nil" =>
              /\ OtherThreads(c.msg.Payload.ThreadId)'
                    = OtherThreads(c.msg.Payload.ThreadId)
              /\ OtherPeers(c.msg.Payload.ThreadId)'
                    = OtherPeers(c.msg.Payload.ThreadId)
              /\ OtherChains(c.msg.Payload.ThreadId)'
                    = OtherChains(c.msg.Payload.ThreadId)]_vars

\* C29: of two applications of INVITE blocks with the same thread id that
\* ran concurrently (each looked the thread up before the other created it),
\* at most one returns no error, and the registry holds at most one thread
\* of that id.
C29_ConcurrentInvites ==
    \A h \in Handlers : \A g \in Handlers \ {h} :
       (/\ running[h].pc = "returned"
        /\ running[g].pc = "returned"
        /\ running[h].overlap
        /\ running[g].overlap
        /\ running[h].signed.ThreadId = running[g].signed.ThreadId)
       => /\ ~(running[h].err = "nil" /\ running[g].err = "nil")
          /\ Cardinality({t \in threads : t.Id = running[h].signed.ThreadId}) <= 1

\* C31: no application of a thread block whose payload unmarshals calls
\* HandleBlock on a nil thrd, and none ends in the nil dereference.
C31_NoNilHandleBlock ==
    (ThreadBlockCalls(last) # {} /\ last.hb.called)
        => (last.hb.thread # "nil" /\ last.hb.err # "panic")

\* C32: an application calls HandleBlock for an INVITE only if the signature
\* is by the decrypted target key, and for a block of another type on a
\* registered thread only if the signature is by that thread's key.
C32_VerifiedBeforeApplied ==
    [][\A c \in ThreadBlockCalls(last') :
          last'.hb.called =>
              IF c.msg.Payload.Type = "INVITE"
              THEN c.msg.Payload.Signer = c.msg.Payload.TargetKey
              ELSE \A t \in threads :
                      t.Id = c.msg.Payload.ThreadId => t.Key = c.msg.Payload.Signer]_vars

\* the calls of handleThreadBlock for an INVITE or a PHOTO that unmarshals
InvitePhotoCalls(l) ==
    {c \in Calls(l, "handleThreadBlock") :
        /\ ~c.msg.Payload.nil
        /\ c.msg.Payload.decodes
        /\ c.msg.Payload.Type \in {"INVITE", "PHOTO"}}

\* C33: an application of an INVITE or a PHOTO returns no reply; if it calls
\* HandleBlock, the call is with the id of the block and on the thread the
\* switch resolved (for an INVITE the thread made from the target key, which
\* is then registered; for a PHOTO the thread of the block's thread id), and
\* the handler returns the error of HandleBlock; if it does not call
\* HandleBlock, the switch failed and the handler returns an error.
C33_BlockApplicationResult ==
    [][\A c \in InvitePhotoCalls(last') :
          LET b == c.msg.Payload
              hb == last'.hb
          IN /\ c.reply.MessageType = "NONE"
             /\ hb.called =>
                   /\ hb.id = b.Id
                   /\ hb.thread = IF b.Type = "INVITE" THEN IDFromPublicKey(b.TargetKey)
                                  ELSE b.ThreadId
                   /\ \E t \in threads' : t.Id = hb.thread
                   /\ c.err = hb.err
                   /\ hb.err = "nil" => <<hb.thread, b.Id>> \in chain'
             /\ ~hb.called => c.err # "nil"]_vars

\* an INVITE passed its checks, its thread is registered, and the error of
\* HandleBlock was returned
C33_Witness ==
    \E c \in InvitePhotoCalls(last) :
       /\ c.msg.Payload.Type = "INVITE"
       /\ last.hb.called
       /\ c.err = "handleBlock"
       /\ threads # {}

\* C34: an application of an INVITE that returns no error adds one row to the
\* peers table, whose thread id is the id of the thread made from the target
\* key (which is registered) and whose peer id is derived from the issuer
\* key of the block; an application of a block of another type adds no row.
C34_InviterRegistration ==
    [][\A c \in ThreadBlockCalls(last') :
          LET b == c.msg.Payload
              n == Len(threadPeers)
          IN /\ (b.Type = "INVITE" /\ c.err = "nil") =>
                   /\ Len(threadPeers') = n + 1
                   /\ SubSeq(threadPeers', 1, n) = threadPeers
                   /\ threadPeers'[n + 1].ThreadId = IDFromPublicKey(b.TargetKey)
                   /\ \E t \in threads' :
                         t.Id = threadPeers'[n + 1].ThreadId /\ t.Key = b.TargetKey
                   /\ threadPeers'[n + 1].Id = IDFromPublicKey(b.IssuerPubKey)
             /\ b.Type # "INVITE" => threadPeers' = threadPeers]_vars

\* an INVITE whose thread id is not the id of the thread it creates has been
\* applied without error: the one row is for the thread created
C34_Witness ==
    /\ BlockCalls(last, "INVITE") # {}
    /\ last.err = "nil"
    /\ Len(threadPeers) = 1
    /\ threadPeers[1].ThreadId # last.msg.Payload.ThreadId
    /\ \E t \in threads : t.Id = threadPeers[1].ThreadId

\* C35: a call of handleStore with a payload that does not unmarshal to a
\* CidList returns a reply of type ERROR and an error, and leaves every
\* store as it was.
C35_StoreMalformedList ==
    [][\A c \in Calls(last', "handleStore") :
          (~c.msg.Payload.nil /\ ~c.msg.Payload.decodes)
              => /\ c.reply.MessageType = "ERROR"
                 /\ c.err # "nil"
                 /\ stores' = stores]_vars

\* a STORE that does not unmarshal has been answered with an ERROR message
\* while the block store holds a block
C35_Witness ==
    /\ last.done
    /\ last.msg.MessageType = "STORE"
    /\ ~last.msg.Payload.nil
    /\ ~last.msg.Payload.decodes
    /\ last.reply.MessageType = "ERROR"
    /\ blocks # {}

\* pg is the page List(off, blockFlushGroupSize) of the queue: at most a
\* page's size of queued messages after off, in ascending id order, and every
\* queued message after off that is not in it comes after a full page
PageAfter(pg, off) ==
    /\ Len(pg) <= blockFlushGroupSize
    /\ \A i \in 1..Len(pg) : pg[i] \in blockMessages /\ pg[i].Id > off
    /\ \A i \in 1..Len(pg), j \in 1..Len(pg) : i < j => pg[i].Id < pg[j].Id
    /\ \A m \in blockMessages :
           (m.Id > off /\ m \notin Range(pg))
               => (Len(pg) = blockFlushGroupSize /\ \A i \in 1..Len(pg) : pg[i].Id < m.Id)

\* C36 as stated: when no Add ran during a Flush, the Flush returns having
\* handled every message that was in the queue at its start, each once.
C36_FlushHandlesAll ==
    \A c \in Callers :
        (pc[c] = "unlock" /\ addedDuring[c] = {})
            => /\ \A id \in AtStart(c) : calls[c][id].done
               /\ rehandled[c] = {}

\* C36, amended: the first page of a Flush that finds the service started is
\* the page after offset 0 and every later page is the page after the last id
\* of the page before it, so that it starts strictly after that id; no message
\* is handled twice; and when no Add ran during such a Flush it returns having
\* handled every message that was in the queue at its start.
C36_FlushCoverage ==
    [][\A c \in Callers :
          /\ (pc[c] = "lock" /\ pc'[c] = "batch") => PageAfter(msgs'[c], 0)
          /\ (pc[c] = "wait" /\ pc'[c] = "delete")
                 => PageAfter(next'[c], msgs[c][Len(msgs[c])].Id)
          /\ (pc[c] = "delete" /\ pc'[c] = "batch")
                 => /\ msgs'[c] = next[c]
                    /\ msgs'[c] # <<>> => msgs'[c][1].Id > msgs[c][Len(msgs[c])].Id
          /\ rehandled[c] = {}
          /\ (pc[c] = "unlock" /\ ran[c] /\ addedDuring[c] = {})
                 => \A id \in AtStart(c) : calls[c][id].done]_vars

\* a Flush during which no Add ran is returning after two pages: it has
\* handled the three messages of the queue and all of them are deleted
C36_Witness ==
    \E c \in Callers :
        /\ pc[c] = "unlock"
        /\ ran[c]
        /\ addedDuring[c] = {}
        /\ \A id \in Ids : calls[c][id].done
        /\ QueuedIds = {}

\* the ids of a page whose handle returned no error
Succeeded(c, pg) == {pg[i].Id : i \in {k \in 1..Len(pg) : ~calls[c][pg[k].Id].err}}

C38_PerDestinationOrder ==
    [][\A c \in Callers, id \in Ids :
          (~calls[c][id].done /\ calls'[c][id].done) =>
              /\ mux = c /\ pc[c] = "wait"
              /\ wpc[c][calls'[c][id].peer] = "run"
              /\ calls'[c][id].peer = calls'[c][id].msg.Peer
              /\ \A j \in HandledFor(c, calls'[c][id].peer) : j < id
              /\ \A j \in Ids \ {id} : calls'[c][j] = calls[c][j]
              /\ \A d \in Callers \ {c}, q \in Peers : wpc[d][q] \notin {"run", "append"}
              /\ rehandled'[c] = {}]_vars

\* a Flush is returning after it handled three messages of one destination,
\* two in its first page and one in its second
C38_Witness ==
    \E c \in Callers :
        /\ pc[c] = "unlock"
        /\ addedDuring[c] = {}
        /\ \A id \in Ids : calls[c][id].done /\ calls[c][id].peer = "P1"

\* C39: a call of handle whose direct send returned no error does not look
\* the contact up and hands nothing to the relay outbox; a call that handed
\* the envelope to the relay outbox did not attempt the direct send or got an
\* error from it.
C39_SingleDeliveryPath ==
    \A c \in Callers, id \in Ids :
        calls[c][id].done =>
            /\ calls[c][id].send = "ok" =>
                   /\ ~calls[c][id].lookup
                   /\ calls[c][id].relay = "none"
                   /\ calls[c][id].inboxes = {}
            /\ calls[c][id].relay # "none" => calls[c][id].send \in {"none", "err"}

\* in one Flush, for one destination with an inbox, a direct send succeeded
\* and nothing was handed to the relay outbox, and a direct send failed and
\* the envelope was handed to the relay outbox
C39_Witness ==
    \E c \in Callers, i \in Ids, j \in Ids :
        /\ calls[c][i].done /\ calls[c][j].done
        /\ calls[c][i].peer = calls[c][j].peer
        /\ hasInbox(contacts[calls[c][i].peer])
        /\ calls[c][i].send = "ok" /\ calls[c][i].relay = "none"
        /\ calls[c][j].send = "err" /\ calls[c][j].relay = "ok"

\* C40: handleOfflineRelay returns no reply; when it called the inner
\* handler, it returns that handler's error.
C40_RelayedRepliesDropped ==
    (last.done /\ last.msg.MessageType = "OFFLINE_RELAY")
        => /\ last.reply.MessageType = "NONE"
           /\ last.inner.called => last.err = last.inner.err

\* the inner handler of a relayed STORE produced a reply, and the relay
\* returned none
C40_Witness ==
    /\ last.done
    /\ last.msg.MessageType = "OFFLINE_RELAY"
    /\ last.inner.called
    /\ last.inner.handler = "handleStore"
    /\ last.inner.reply.MessageType = "STORE"
    /\ last.reply.MessageType = "NONE"
    /\ last.err = "nil"

====
